---- MODULE Spec2Model ----
(***************************************************************************)
(* Model of the MsGine SDK core: MsGineClient (sendSms, sendSmsBatch),     *)
(* FetchHttpClient (request, executeRequest, handleResponse) and the       *)
(* SendSmsSchema validation, on a discrete clock with JavaScript timers.   *)
(***************************************************************************)
EXTENDS Integers, Sequences, FiniteSets, TLC

VARIABLES client, op, sends, batch, now

vars == <<client, op, sends, batch, now>>

(***************************************************************************)
(* Bounds of the model.                                                    *)
(***************************************************************************)
\* longest batch the caller passes to sendSmsBatch
MaxBatch == 2
\* the clock advances in unit steps up to this time, and at any time to the
\* expiry of the next armed timer
MaxTime == 3
MaxSends == 2

(***************************************************************************)
(* Values.                                                                 *)
(***************************************************************************)
\* JavaScript undefined, where a string or an error is expected
UNDEFINED == "<undefined>"

\* no timer armed
NoTimer == -1

Min(a, b) == IF a <= b THEN a ELSE b

RECURSIVE Pow(_, _)
Pow(b, n) == IF n <= 0 THEN 1 ELSE b * Pow(b, n - 1)

\* String.prototype.repeat
RECURSIVE Repeat(_, _)
Repeat(s, n) ==
    IF n = 0 THEN ""
    ELSE IF n % 2 = 1 THEN s \o Repeat(s, n - 1)
    ELSE LET h == Repeat(s, n \div 2) IN h \o h

(***************************************************************************)
(* types.ts: SendSmsSchema, MsGineError, MsGineValidationError.            *)
(***************************************************************************)
MaxMessageLen == 1600

\* the issues zod reports for the field 'to'
ToIssues(payload) ==
    IF Len(payload.to) < 1
    THEN <<[path |-> <<"to">>, message |-> "Phone number is required"]>>
    ELSE <<>>

\* the schema without .max(1600, 'Message too long')
MessageIssuesNoMax(payload) ==
    IF Len(payload.message) < 1
    THEN <<[path |-> <<"message">>, message |-> "Message is required"]>>
    ELSE <<>>

\* the issues zod reports for the field 'message'
MessageIssues(payload) ==
    (IF Len(payload.message) < 1
     THEN <<[path |-> <<"message">>, message |-> "Message is required"]>>
     ELSE <<>>)
    \o
    (IF Len(payload.message) > MaxMessageLen
     THEN <<[path |-> <<"message">>, message |-> "Message too long"]>>
     ELSE <<>>)

\* a parse that stops at the first field with an issue
safeParseFirstFieldOnly(payload) ==
    LET issues == IF ToIssues(payload) # <<>>
                  THEN ToIssues(payload) ELSE MessageIssues(payload)
    IN  [success |-> issues = <<>>,
         data    |-> [to |-> payload.to, message |-> payload.message],
         error   |-> issues]

\* SendSmsSchema.safeParse(payload)
safeParse(payload) ==
    LET issues == ToIssues(payload) \o MessageIssues(payload)
    IN  [success |-> issues = <<>>,
         data    |-> [to |-> payload.to, message |-> payload.message],
         error   |-> issues]

\* a thrown value: cls is the class it is an instance of
Thrown(cls, name, message, statusCode, code, issues) ==
    [cls |-> cls, name |-> name, message |-> message,
     statusCode |-> statusCode, code |-> code, issues |-> issues]

\* new MsGineError(message, statusCode, code)
MsGineError(message, statusCode, code) ==
    Thrown("MsGineError", "MsGineError", message, statusCode, code, <<>>)

\* new MsGineValidationError(message, errors)
MsGineValidationError(message, errors) ==
    Thrown("MsGineValidationError", "MsGineValidationError", message,
           -1, UNDEFINED, errors)

\* new Error(message), with the name the thrower gave it
PlainError(name, message) ==
    Thrown("Error", name, message, -1, UNDEFINED, <<>>)

\* a thrown value that is not an Error (throw 'boom')
NonErrorValue(v) ==
    Thrown("NonError", UNDEFINED, v, -1, UNDEFINED, <<>>)

\* the value of an unassigned 'let lastError'
UndefinedValue ==
    Thrown("undefined", UNDEFINED, UNDEFINED, -1, UNDEFINED, <<>>)

\* error instanceof Error
InstanceOfError(e) ==
    e.cls \in {"Error", "MsGineError", "MsGineValidationError"}

\* error instanceof MsGineError
InstanceOfMsGineError(e) == e.cls = "MsGineError"

\* completion records of a function body
Return(v) == [type |-> "return", value |-> v]
Throw(e) == [type |-> "throw", value |-> e]

(***************************************************************************)
(* http-client.ts: pure parts.                                             *)
(***************************************************************************)
\* DEFAULT_RETRY_CONFIG
DEFAULT_RETRY_CONFIG ==
    [maxRetries |-> 3,
     initialDelay |-> 1000,
     maxDelay |-> 10000,
     backoffMultiplier |-> 2,
     retryableStatusCodes |-> {408, 429, 500, 502, 503, 504}]

DefaultBaseUrl == "https://api.msgine.net/api/v1"
DefaultTimeout == 30000

\* a merge in which supplied status codes are added to the default ones
MergeRetryExtendingCodes(retry) ==
    [f \in DOMAIN DEFAULT_RETRY_CONFIG |->
        IF f \notin DOMAIN retry THEN DEFAULT_RETRY_CONFIG[f]
        ELSE IF f = "retryableStatusCodes"
        THEN DEFAULT_RETRY_CONFIG[f] \cup retry[f]
        ELSE retry[f]]

\* { ...DEFAULT_RETRY_CONFIG, ...config.retry }
MergeRetry(retry) ==
    [f \in DOMAIN DEFAULT_RETRY_CONFIG |->
        IF f \in DOMAIN retry THEN retry[f] ELSE DEFAULT_RETRY_CONFIG[f]]

\* contentType?.includes('application/json')
IsJson(contentType) ==
    contentType \in {"application/json", "application/json; charset=utf-8"}

\* response.json() of a body that does not parse
ParseFailure == [syntaxError |-> TRUE]

\* errorData.error?.message ?? errorMessage
EnvelopeMessage(json, errorMessage) ==
    IF "error" \in DOMAIN json /\ json.error.message # UNDEFINED
    THEN json.error.message ELSE errorMessage

\* errorData.error?.code
EnvelopeCode(json) ==
    IF "error" \in DOMAIN json THEN json.error.code ELSE UNDEFINED

\* FetchHttpClient.handleResponse
handleResponse(response) ==
    LET isJson == IsJson(response.contentType)
        errorMessage == "HTTP " \o ToString(response.status) \o ": "
                            \o response.statusText
        parsed == isJson /\ response.json # ParseFailure
    IN  IF response.ok
        THEN IF isJson
             THEN IF response.json = ParseFailure
                  THEN Throw(PlainError("SyntaxError", "Unexpected token"))
                  ELSE Return(response.json)
             ELSE Throw(MsGineError("Unexpected response format",
                                    response.status,
                                    "INVALID_RESPONSE_FORMAT"))
        ELSE Throw(MsGineError(
                 IF parsed THEN EnvelopeMessage(response.json, errorMessage)
                           ELSE errorMessage,
                 response.status,
                 IF parsed THEN EnvelopeCode(response.json) ELSE UNDEFINED))

\* the catch block without its AbortError branch
executeRequestCatchNoAbort(error) ==
    IF InstanceOfError(error)
    THEN MsGineError("Network error: " \o error.message, 0, "NETWORK_ERROR")
    ELSE error

\* the catch block of FetchHttpClient.executeRequest: what it throws for a
\* value thrown inside the try block
executeRequestCatch(error) ==
    IF InstanceOfError(error) /\ error.name = "AbortError"
    THEN MsGineError("Request timeout", 408, "REQUEST_TIMEOUT")
    ELSE IF InstanceOfError(error)
    THEN MsGineError("Network error: " \o error.message, 0, "NETWORK_ERROR")
    ELSE error

\* the try block of executeRequest once fetchImpl has settled: a response is
\* handed to handleResponse inside the try, a rejection goes to the catch
executeRequestSettle(settled) ==
    IF settled.type = "return"
    THEN LET handled == handleResponse(settled.value)
         IN  IF handled.type = "throw"
             THEN Throw(executeRequestCatch(handled.value))
             ELSE handled
    ELSE Throw(executeRequestCatch(settled.value))

\* the retry test of FetchHttpClient.request on a caught error
IsRetryable(rc, error) ==
    InstanceOfMsGineError(error)
        /\ error.statusCode \in rc.retryableStatusCodes

\* the exhaustion test off by one
ExhaustedOffByOne(rc, attempt) == attempt > rc.maxRetries

\* 'attempt >= maxRetries' of FetchHttpClient.request
Exhausted(rc, attempt) == attempt >= rc.maxRetries

\* the backoff delay without its ceiling
BackoffDelayUncapped(rc, attempt) ==
    rc.initialDelay * Pow(rc.backoffMultiplier, attempt)

\* the backoff delay computed after the attempt counter was incremented
BackoffDelayNextAttempt(rc, attempt) ==
    Min(rc.initialDelay * Pow(rc.backoffMultiplier, attempt + 1), rc.maxDelay)

\* the backoff delay of FetchHttpClient.request
BackoffDelay(rc, attempt) ==
    Min(rc.initialDelay * Pow(rc.backoffMultiplier, attempt), rc.maxDelay)

\* the loop condition of FetchHttpClient.request
LoopContinues(rc, attempt) == attempt <= rc.maxRetries

\* the first index >= from at which sub occurs in s, 0 when there is none
RECURSIVE IndexOf(_, _, _)
IndexOf(s, sub, from) ==
    IF from + Len(sub) - 1 > Len(s) THEN 0
    ELSE IF SubSeq(s, from, from + Len(sub) - 1) = sub THEN from
    ELSE IndexOf(s, sub, from + 1)

\* the last index at which sub occurs in s at or after from, 0 when none
RECURSIVE LastIndexOf(_, _, _)
LastIndexOf(s, sub, from) ==
    LET i == IndexOf(s, sub, from)
    IN  IF i = 0 THEN 0
        ELSE LET later == LastIndexOf(s, sub, i + 1)
             IN  IF later = 0 THEN i ELSE later

\* where the path of an absolute http(s) URL starts, 0 when it has none
PathStart(base) == IndexOf(base, "/", IndexOf(base, "://", 1) + 3)

\* scheme://host of an absolute http(s) URL
Origin(base) ==
    IF PathStart(base) = 0 THEN base
    ELSE SubSeq(base, 1, PathStart(base) - 1)

\* new URL(path, base).toString(): a path that starts with '/' replaces the
\* whole path of the base; any other path replaces the last segment of it
NewURL(path, base) ==
    IF Len(path) >= 1 /\ SubSeq(path, 1, 1) = "/"
    THEN Origin(base) \o path
    ELSE IF PathStart(base) = 0
    THEN base \o "/" \o path
    ELSE SubSeq(base, 1, LastIndexOf(base, "/", PathStart(base))) \o path

\* FetchHttpClient.buildUrl without query parameters (sendSms passes none)
buildUrl(baseUrl, path) == NewURL(path, baseUrl)

\* headers merged with the defaults last
buildHeadersDefaultsLast(apiToken, customHeaders) ==
    ("Authorization" :> apiToken)
        @@ ("Content-Type" :> "application/json")
        @@ ("User-Agent" :> "@msgine/sdk/1.0.0")
        @@ customHeaders

\* headers whose Authorization carries a scheme in front of the token
buildHeadersWithScheme(apiToken, customHeaders) ==
    customHeaders @@ ("Authorization" :> "Bearer " \o apiToken)
                  @@ ("Content-Type" :> "application/json")
                  @@ ("User-Agent" :> "@msgine/sdk/1.0.0")

\* FetchHttpClient.buildHeaders: custom headers override the three defaults
buildHeaders(apiToken, customHeaders) ==
    customHeaders @@ ("Authorization" :> apiToken)
                  @@ ("Content-Type" :> "application/json")
                  @@ ("User-Agent" :> "@msgine/sdk/1.0.0")

\* a string member of a JSON object (the inputs hold no character that
\* JSON.stringify escapes)
JSONMember(key, value) == "\"" \o key \o "\":\"" \o value \o "\""

\* JSON.stringify of an SMS payload object: to, message, then any further
\* key the object carries
JSONstringify(body) ==
    "{" \o JSONMember("to", body.to)
        \o "," \o JSONMember("message", body.message)
        \o (IF "senderId" \in DOMAIN body
            THEN "," \o JSONMember("senderId", body.senderId) ELSE "")
        \o "}"

(***************************************************************************)
(* Inputs: what the caller and the injected HTTP executor may supply.      *)
(***************************************************************************)
SmsPayload(to, message) == [to |-> to, message |-> message]

\* the last one carries a key that is not in the schema
ValidPayloads ==
    {SmsPayload("+256701521269", "Hello"),
     SmsPayload("+256701521270", Repeat("a", MaxMessageLen)),
     [to |-> "+256701521269", message |-> "Hello", senderId |-> "ACME"]}

InvalidPayloads ==
    {SmsPayload("", "Hello"),
     SmsPayload("+256701521269", ""),
     SmsPayload("+256701521269", Repeat("a", MaxMessageLen + 1)),
     SmsPayload("", Repeat("a", MaxMessageLen + 1)),
     SmsPayload("", "")}

Payloads == ValidPayloads \cup InvalidPayloads

\* the payloads of a batch
BatchPayloads ==
    {SmsPayload("+256701521269", "Hello"),
     SmsPayload("+256701521270", "Hello 2"),
     SmsPayload("", "Invalid"),
     SmsPayload("", "")}

\* sequences of length 0..n of payloads of the set ps
RECURSIVE PayloadSeqs(_, _)
PayloadSeqs(ps, n) ==
    IF n = 0 THEN {<<>>}
    ELSE LET shorter == PayloadSeqs(ps, n - 1)
         IN  shorter \cup
             {Append(q, p) : q \in {r \in shorter : Len(r) = n - 1},
                             p \in ps}

\* the fetch implementations a configuration may inject: one that rejects
\* with an AbortError when its signal aborts (as globalThis.fetch does), and
\* one that ignores the signal
FetchImpls == {"fetchHonoringSignal", "fetchIgnoringSignal"}

HonorsSignal(fetchImpl) == fetchImpl # "fetchIgnoringSignal"

NoOverrides == [f \in {} |-> 0]

RetryInputs ==
    {NoOverrides,
     [maxRetries |-> 2, initialDelay |-> 1],
     [maxRetries |-> 0],
     [maxRetries |-> -1],
     [maxRetries |-> 1, initialDelay |-> 2, maxDelay |-> 3,
      retryableStatusCodes |-> {503}],
     [maxRetries |-> 1, initialDelay |-> 1,
      retryableStatusCodes |-> {0, 408, 503}],
     [maxRetries |-> 6]}

\* MsGineClientConfig values: optional fields are absent from the record
ConfigsOf(tokens, timeouts, fetches, retries) ==
    {[apiToken |-> tok, timeout |-> tmo, fetch |-> f, retry |-> r] :
        tok \in tokens, tmo \in timeouts, f \in fetches, r \in retries}
    \cup
    {[apiToken |-> tok, retry |-> r] : tok \in tokens, r \in retries}

\* configurations with a base URL of their own, with and without a path
CustomBaseUrlConfigs ==
    {[apiToken |-> "test-token-123", baseUrl |-> b, timeout |-> 2,
      retry |-> [maxRetries |-> 1, initialDelay |-> 1]] :
        b \in {"https://custom.api.com/v2", "https://custom.api.com"}}

ConfigInputs ==
    ConfigsOf({"", "test-token-123"}, {2}, FetchImpls, RetryInputs)
    \cup CustomBaseUrlConfigs

\* config.field ?? fallback
OrDefault(config, field, fallback) ==
    IF field \in DOMAIN config THEN config[field] ELSE fallback

ErrorEnvelope(code, message) ==
    [error |-> [code |-> code, message |-> message]]

HttpResponse(status, statusText, contentType, json) ==
    [ok |-> status \in 200..299, status |-> status,
     statusText |-> statusText, contentType |-> contentType, json |-> json]

SuccessBodies == {[id |-> "msg_1"], [id |-> "msg_2"]}

SuccessResponses ==
    {HttpResponse(200, "OK", "application/json", b) : b \in SuccessBodies}

FailureResponses ==
    {HttpResponse(401, "Unauthorized", "application/json",
                  ErrorEnvelope("UNAUTHORIZED", "Invalid API token")),
     HttpResponse(503, "Service Unavailable", "application/json",
                  ErrorEnvelope("SERVICE_UNAVAILABLE",
                                "Service temporarily unavailable")),
     HttpResponse(503, "Service Unavailable", "text/html", ParseFailure),
     HttpResponse(500, "Internal Server Error", "application/json",
                  [message |-> "oops"])}

MalformedResponses ==
    {HttpResponse(200, "OK", "text/html", ParseFailure),
     HttpResponse(200, "OK", "application/json", ParseFailure)}

Responses == SuccessResponses \cup FailureResponses \cup MalformedResponses

AbortError == PlainError("AbortError", "The operation was aborted")

\* what fetchImpl may reject with of its own accord
Rejections == {PlainError("Error", "Network failure"), NonErrorValue("boom")}

\* the responses of the batch specification: the server answers a request
\* with a DeliveryResult naming the recipient of the request, or with a 503
BatchResponse(body) ==
    {HttpResponse(200, "OK", "application/json",
                  [id |-> "msg_1", to |-> <<body.to>>]),
     HttpResponse(503, "Service Unavailable", "application/json",
                  ErrorEnvelope("SERVICE_UNAVAILABLE",
                                "Service temporarily unavailable"))}

(***************************************************************************)
(* State.                                                                  *)
(***************************************************************************)
NoClient == [state |-> "none"]

NoOp == [kind |-> "none", payloads |-> <<>>]

Pending == [type |-> "pending", value |-> UndefinedValue]

NoBatch == [status |-> "none", results |-> <<>>, settled |-> 0,
            error |-> UndefinedValue, order |-> <<>>]

Init ==
    /\ client = NoClient
    /\ op = NoOp
    /\ sends = <<>>
    /\ batch = NoBatch
    /\ now = 0

\* the retry policy of the constructed client
retryConfig == client.retryConfig

SendIds == DOMAIN sends

\* network calls issued so far
RECURSIVE SumCalls(_)
SumCalls(n) == IF n = 0 THEN 0 ELSE sends[n].calls + SumCalls(n - 1)
NetworkCalls == SumCalls(Len(sends))

\* network calls of the first n sends of the sequence ss
RECURSIVE CallsOf(_, _)
CallsOf(ss, n) == IF n = 0 THEN 0 ELSE ss[n].calls + CallsOf(ss, n - 1)

(***************************************************************************)
(* new MsGineClient(config) -> new FetchHttpClient(config)                 *)
(***************************************************************************)
\* the constructor without its check of the token
ConstructedClientUnchecked(config) ==
    [state |-> "ready",
     baseUrl |-> OrDefault(config, "baseUrl", DefaultBaseUrl),
     apiToken |-> config.apiToken,
     timeout |-> OrDefault(config, "timeout", DefaultTimeout),
     fetchImpl |-> OrDefault(config, "fetch", "fetchHonoringSignal"),
     retryConfig |-> MergeRetry(OrDefault(config, "retry", NoOverrides)),
     config |-> config]

\* the constructor; the record of the client keeps the argument it was
\* given, and when the constructor throws, the token it was given
ConstructedClient(config) ==
    IF config.apiToken = ""
    THEN [state |-> "failed",
          apiToken |-> config.apiToken,
          error |-> PlainError("Error", "API token is required")]
    ELSE [state |-> "ready",
          baseUrl |-> OrDefault(config, "baseUrl", DefaultBaseUrl),
          apiToken |-> config.apiToken,
          timeout |-> OrDefault(config, "timeout", DefaultTimeout),
          fetchImpl |-> OrDefault(config, "fetch", "fetchHonoringSignal"),
          retryConfig |-> MergeRetry(OrDefault(config, "retry", NoOverrides)),
          config |-> config]

Construct(configs) ==
    /\ client.state = "none"
    /\ \E config \in configs : client' = ConstructedClient(config)
    /\ UNCHANGED <<op, sends, batch, now>>

(***************************************************************************)
(* FetchHttpClient.request / executeRequest as steps of one send.          *)
(***************************************************************************)
\* RequestOptions of a send that has not called httpClient.request
NoRequest == [method |-> UNDEFINED, path |-> UNDEFINED]

\* the arguments fetchImpl is called with for the request of send s
FetchCall(s) ==
    [url |-> buildUrl(client.baseUrl, s.request.path),
     method |-> s.request.method,
     headers |-> buildHeaders(client.apiToken,
                              OrDefault(s.request, "headers", NoOverrides)),
     body |-> IF "body" \in DOMAIN s.request
              THEN JSONstringify(s.request.body) ELSE UNDEFINED]

\* a sendSms invocation that has not reached its first await
NewSend(payload, t) ==
    [payload |-> payload, pc |-> "start", attempt |-> 0, calls |-> 0,
     sleeps |-> 0, lastError |-> UndefinedValue, outcome |-> Pending,
     timer |-> NoTimer, armedAt |-> NoTimer, aborted |-> FALSE,
     wake |-> NoTimer, lastDelay |-> 0,
     started |-> t, ended |-> NoTimer, answers |-> <<>>, errors |-> <<>>,
     requests |-> 0, request |-> NoRequest, wire |-> <<>>, firstSeq |-> 0]

\* a send that settles without clearing the deadline timer of its attempt
SettleKeepsTimer(s, completion, t) ==
    [s EXCEPT !.pc = "done", !.outcome = completion, !.ended = t,
              !.wake = NoTimer]

\* the send settles: its promise is fulfilled or rejected
Settle(s, completion, t) ==
    [s EXCEPT !.pc = "done", !.outcome = completion, !.ended = t,
              !.timer = NoTimer, !.wake = NoTimer]

\* executeRequest with one deadline for the whole send instead of one for
\* each attempt
IssueCallSharedDeadline(s, t) ==
    [s EXCEPT !.pc = "fetching", !.calls = @ + 1,
              !.timer = s.started + client.timeout, !.armedAt = t,
              !.aborted = FALSE, !.wake = NoTimer,
              !.wire = Append(@, FetchCall(s)),
              !.firstSeq = IF s.calls = 0 THEN NetworkCalls + 1 ELSE @]

\* executeRequest up to 'await this.fetchImpl(...)': arms the deadline timer
\* and issues the network call
IssueCall(s, t) ==
    [s EXCEPT !.pc = "fetching", !.calls = @ + 1,
              !.timer = t + client.timeout, !.armedAt = t,
              !.aborted = FALSE, !.wake = NoTimer,
              !.wire = Append(@, FetchCall(s)),
              !.firstSeq = IF s.calls = 0 THEN NetworkCalls + 1 ELSE @]

\* a loop whose budget of attempts is counted over all the sends of the
\* client instead of over the send itself
LoopHeadSharedCounter(s, t) ==
    IF NetworkCalls <= retryConfig.maxRetries
    THEN IssueCall(s, t)
    ELSE Settle(s, Throw(s.lastError), t)

\* the head of the while loop of request
LoopHead(s, t) ==
    IF LoopContinues(retryConfig, s.attempt)
    THEN IssueCall(s, t)
    ELSE Settle(s, Throw(s.lastError), t)

\* a loop that sleeps and goes round again after a successful attempt too,
\* as long as attempts are left
AfterAttemptRetriesSuccess(s, completion, t) ==
    IF completion.type = "return" /\ Exhausted(retryConfig, s.attempt)
    THEN Settle(s, completion, t)
    ELSE IF completion.type = "return"
    THEN [s EXCEPT !.pc = "sleeping", !.timer = NoTimer,
                   !.sleeps = @ + 1,
                   !.lastDelay = BackoffDelay(retryConfig, s.attempt),
                   !.wake = t + BackoffDelay(retryConfig, s.attempt)]
    ELSE LET error == completion.value
             caught == [s EXCEPT !.lastError = error, !.timer = NoTimer,
                                 !.errors = Append(@, error)]
         IN  IF ~IsRetryable(retryConfig, error)
             THEN Settle(caught, Throw(error), t)
             ELSE IF Exhausted(retryConfig, s.attempt)
             THEN Settle(caught, Throw(error), t)
             ELSE [caught EXCEPT
                      !.pc = "sleeping",
                      !.sleeps = @ + 1,
                      !.lastDelay = BackoffDelay(retryConfig, s.attempt),
                      !.wake = t + BackoffDelay(retryConfig, s.attempt)]

\* the loop of request throwing the error of the first attempt instead of
\* the one it has just caught
AfterAttemptThrowsFirst(s, completion, t) ==
    IF completion.type = "return"
    THEN Settle(s, completion, t)
    ELSE LET error == completion.value
             caught == [s EXCEPT !.lastError = error, !.timer = NoTimer,
                                 !.errors = Append(@, error)]
         IN  IF ~IsRetryable(retryConfig, error)
             THEN Settle(caught, Throw(caught.errors[1]), t)
             ELSE IF Exhausted(retryConfig, s.attempt)
             THEN Settle(caught, Throw(caught.errors[1]), t)
             ELSE [caught EXCEPT
                      !.pc = "sleeping",
                      !.sleeps = @ + 1,
                      !.lastDelay = BackoffDelay(retryConfig, s.attempt),
                      !.wake = t + BackoffDelay(retryConfig, s.attempt)]

\* request from a completed executeRequest to the next await or the end
AfterAttempt(s, completion, t) ==
    IF completion.type = "return"
    THEN Settle(s, completion, t)
    ELSE LET error == completion.value
             caught == [s EXCEPT !.lastError = error, !.timer = NoTimer,
                                 !.errors = Append(@, error)]
         IN  IF ~IsRetryable(retryConfig, error)
             THEN Settle(caught, Throw(error), t)
             ELSE IF Exhausted(retryConfig, s.attempt)
             THEN Settle(caught, Throw(error), t)
             ELSE [caught EXCEPT
                      !.pc = "sleeping",
                      !.sleeps = @ + 1,
                      !.lastDelay = BackoffDelay(retryConfig, s.attempt),
                      !.wake = t + BackoffDelay(retryConfig, s.attempt)]

\* fetchImpl settled for the call in flight: clearTimeout, then the rest of
\* executeRequest and of the loop body of request
AfterFetch(s, settled, t) ==
    AfterAttempt([s EXCEPT !.answers = Append(@, settled)],
                 executeRequestSettle(settled), t)

\* a request that sleeps the initial delay before its first attempt
requestSleepsFirst(s, options, t) ==
    [s EXCEPT !.requests = @ + 1, !.request = options,
              !.pc = "sleeping", !.sleeps = @ + 1,
              !.lastDelay = retryConfig.initialDelay,
              !.wake = t + retryConfig.initialDelay]

\* FetchHttpClient.request(options) up to its first await
request(s, options, t) ==
    LoopHead([s EXCEPT !.requests = @ + 1, !.request = options], t)

\* sendSms handing the payload it was given, not the parsed one, to request
sendSmsRawBody(payload, t) ==
    LET validation == safeParse(payload)
    IN  IF ~validation.success
        THEN Settle(NewSend(payload, t),
                    Throw(MsGineValidationError("Invalid SMS payload",
                                                validation.error)), t)
        ELSE request(NewSend(validation.data, t),
                     [method |-> "POST", path |-> "/messages/sms",
                      body |-> payload], t)

\* MsGineClient.sendSms up to its first await
sendSms(payload, t) ==
    LET validation == safeParse(payload)
    IN  IF ~validation.success
        THEN Settle(NewSend(payload, t),
                    Throw(MsGineValidationError("Invalid SMS payload",
                                                validation.error)), t)
        ELSE request(NewSend(validation.data, t),
                     [method |-> "POST", path |-> "/messages/sms",
                      body |-> validation.data], t)

(***************************************************************************)
(* Promise.all over the item sends of sendSmsBatch.                        *)
(***************************************************************************)
\* a combinator that waits for a settlement even when it has no promise
PromiseAllNeverEmpty(n) ==
    [status |-> "pending",
     results |-> [i \in 1..n |-> UndefinedValue],
     settled |-> 0, error |-> UndefinedValue, order |-> <<>>]

\* Promise.all(promises) at its creation
PromiseAll(n) ==
    [status |-> IF n = 0 THEN "fulfilled" ELSE "pending",
     results |-> [i \in 1..n |-> UndefinedValue],
     settled |-> 0, error |-> UndefinedValue, order |-> <<>>]

\* the results collected in the order of completion
PlaceResultInCompletionOrder(results, i, value) ==
    LET free == {k \in DOMAIN results : results[k] = UndefinedValue}
        first == CHOOSE k \in free : \A m \in free : k <= m
    IN  [results EXCEPT ![first] = value]

\* the value item i contributes to the array Promise.all builds
PlaceResult(results, i, value) == [results EXCEPT ![i] = value]

\* a combinator that reports the failure that came last
PromiseAllReactLastError(b, i, outcome) ==
    IF b.status = "none" THEN b
    ELSE LET seen == [b EXCEPT !.order = Append(@, i)]
         IN  IF outcome.type = "return"
             THEN LET placed == [seen EXCEPT
                                   !.results = PlaceResult(@, i, outcome.value),
                                   !.settled = @ + 1]
                  IN  IF placed.status = "pending"
                         /\ placed.settled = Len(placed.results)
                      THEN [placed EXCEPT !.status = "fulfilled"]
                      ELSE placed
             ELSE [seen EXCEPT !.status = "rejected", !.error = outcome.value]

\* Promise.all reacting to the settlement of item i
PromiseAllReact(b, i, outcome) ==
    IF b.status = "none" THEN b
    ELSE LET seen == [b EXCEPT !.order = Append(@, i)]
         IN  IF outcome.type = "return"
             THEN LET placed == [seen EXCEPT
                                   !.results = PlaceResult(@, i, outcome.value),
                                   !.settled = @ + 1]
                  IN  IF placed.status = "pending"
                         /\ placed.settled = Len(placed.results)
                      THEN [placed EXCEPT !.status = "fulfilled"]
                      ELSE placed
             ELSE IF seen.status = "pending"
                  THEN [seen EXCEPT !.status = "rejected",
                                    !.error = outcome.value]
                  ELSE seen

\* the reactions to every item that settled before its first await, in order
RECURSIVE ReactToSettled(_, _, _)
ReactToSettled(b, items, i) ==
    IF i > Len(items) THEN b
    ELSE ReactToSettled(
             IF items[i].pc = "done"
             THEN PromiseAllReact(b, i, items[i].outcome) ELSE b,
             items, i + 1)

\* a map that calls sendSms for the last payload first
IssuedInReverseOrder(items) ==
    [i \in DOMAIN items |->
        IF items[i].calls = 0 THEN items[i]
        ELSE [items[i] EXCEPT
                 !.firstSeq = NetworkCalls + CallsOf(items, Len(items))
                                  - CallsOf(items, i) + 1]]

\* payloads.map((payload) => this.sendSms(payload)): sendSms is called for
\* the payloads in index order and runs up to its network call before map
\* goes on, so the first call of an item comes after those of the items
\* before it
IssuedInInputOrder(items) ==
    [i \in DOMAIN items |->
        IF items[i].calls = 0 THEN items[i]
        ELSE [items[i] EXCEPT
                 !.firstSeq = NetworkCalls + CallsOf(items, i - 1) + 1]]

\* a find that looks at the first validation only
FindInvalidFirstOnly(validations, i) ==
    IF Len(validations) >= 1 /\ ~validations[1].success THEN 1 ELSE 0

\* a find that returns the last failure
RECURSIVE FindInvalidLast(_, _)
FindInvalidLast(validations, i) ==
    IF i > Len(validations) THEN 0
    ELSE LET later == FindInvalidLast(validations, i + 1)
         IN  IF later # 0 THEN later
             ELSE IF ~validations[i].success THEN i ELSE 0

\* validations.find((v) => !v.success): index of the first failure, 0 if none
RECURSIVE FindInvalid(_, _)
FindInvalid(validations, i) ==
    IF i > Len(validations) THEN 0
    ELSE IF ~validations[i].success THEN i
    ELSE FindInvalid(validations, i + 1)

(***************************************************************************)
(* Caller operations.                                                      *)
(***************************************************************************)
\* client.sendSms(payload)
SendSms ==
    /\ client.state = "ready"
    /\ op.kind = "none"
    /\ \E payload \in Payloads :
          /\ op' = [kind |-> "sendSms", payloads |-> <<payload>>]
          /\ sends' = <<sendSms(payload, now)>>
    /\ UNCHANGED <<client, batch, now>>

\* client.sendSmsBatch(payloads)
SendSmsBatch ==
    /\ client.state = "ready"
    /\ op.kind = "none"
    /\ \E payloads \in PayloadSeqs(BatchPayloads, MaxBatch) :
          LET validations == [i \in 1..Len(payloads) |-> safeParse(payloads[i])]
              invalid == FindInvalid(validations, 1)
              items == IssuedInInputOrder(
                           [i \in 1..Len(payloads) |->
                               sendSms(payloads[i], now)])
          IN  /\ op' = [kind |-> "sendSmsBatch", payloads |-> payloads]
              /\ IF invalid # 0
                 THEN /\ sends' = <<>>
                      /\ batch' = [NoBatch EXCEPT
                            !.status = "rejected",
                            !.error = MsGineValidationError(
                                          "Invalid SMS payload in batch",
                                          validations[invalid].error)]
                 ELSE /\ sends' = items
                      /\ batch' = ReactToSettled(PromiseAll(Len(items)),
                                                 items, 1)
    /\ UNCHANGED <<client, now>>

(***************************************************************************)
(* The injected fetch, the deadline timer and the sleep timer.             *)
(***************************************************************************)
\* a transport that counts its attempts down in the retry policy of the
\* client
ResumeCountingInConfig(i, next) ==
    /\ sends' = [sends EXCEPT ![i] = next]
    /\ batch' = IF next.pc = "done" /\ i \in DOMAIN batch.results
                THEN PromiseAllReact(batch, i, next.outcome) ELSE batch
    /\ client' = [client EXCEPT !.retryConfig.maxRetries =
                                    @ - (next.calls - sends[i].calls)]
    /\ UNCHANGED <<op, now>>

\* the send leaves its await; Promise.all reacts when the send has settled
Resume(i, next) ==
    /\ sends' = [sends EXCEPT ![i] = next]
    /\ batch' = IF next.pc = "done" /\ i \in DOMAIN batch.results
                THEN PromiseAllReact(batch, i, next.outcome) ELSE batch
    /\ UNCHANGED <<client, op, now>>

\* fetchImpl resolves with a response
FetchResolve(i, responses) ==
    /\ sends[i].pc = "fetching"
    /\ ~(sends[i].aborted /\ HonorsSignal(client.fetchImpl))
    /\ \E response \in responses :
          Resume(i, AfterFetch(sends[i], Return(response), now))

\* fetchImpl rejects of its own accord
FetchReject(i, rejections) ==
    /\ sends[i].pc = "fetching"
    /\ ~(sends[i].aborted /\ HonorsSignal(client.fetchImpl))
    /\ \E error \in rejections :
          Resume(i, AfterFetch(sends[i], Throw(error), now))

\* the deadline timer of the attempt in flight fires: controller.abort();
\* a fetch honoring the signal rejects with an AbortError at once
TimeoutFire(i) ==
    /\ sends[i].pc = "fetching"
    /\ sends[i].timer # NoTimer
    /\ now >= sends[i].timer
    /\ LET aborted == [sends[i] EXCEPT !.timer = NoTimer, !.aborted = TRUE]
       IN  IF HonorsSignal(client.fetchImpl)
           THEN Resume(i, AfterFetch(aborted, Throw(AbortError), now))
           ELSE Resume(i, aborted)

\* a sleep that may end before its timer has expired
WakeEarly(i) ==
    /\ sends[i].pc = "sleeping"
    /\ Resume(i, LoopHead([sends[i] EXCEPT !.attempt = @ + 1,
                                           !.wake = NoTimer], now))

\* a sleep timer whose expiry does not resume the loop
WakeWithoutResuming(i) ==
    /\ sends[i].pc = "sleeping"
    /\ now >= sends[i].wake
    /\ Resume(i, sends[i])

\* the sleep timer fires: attempt++ and back to the head of the loop
Wake(i) ==
    /\ sends[i].pc = "sleeping"
    /\ now >= sends[i].wake
    /\ Resume(i, LoopHead([sends[i] EXCEPT !.attempt = @ + 1,
                                           !.wake = NoTimer], now))

\* expiry times of the armed timers
ArmedTimers ==
    {sends[i].timer : i \in {j \in SendIds : sends[j].timer # NoTimer}}
    \cup {sends[i].wake : i \in {j \in SendIds : sends[j].wake # NoTimer}}

\* the clock advances by one unit; a due timer fires first
Tick ==
    /\ client.state = "ready"
    /\ now < MaxTime
    /\ \A t \in ArmedTimers : t > now
    /\ now' = now + 1
    /\ UNCHANGED <<client, op, sends, batch>>

\* the clock advances to the expiry of the next armed timer
SkipToTimer ==
    /\ ArmedTimers # {}
    /\ \A t \in ArmedTimers : t > now
    /\ now' = CHOOSE t \in ArmedTimers : \A u \in ArmedTimers : t <= u
    /\ UNCHANGED <<client, op, sends, batch>>

\* one client, one sendSms call
Next ==
    \/ Construct(ConfigInputs)
    \/ SendSms
    \/ \E i \in SendIds : FetchResolve(i, Responses)
    \/ \E i \in SendIds : FetchReject(i, Rejections)
    \/ \E i \in SendIds : TimeoutFire(i)
    \/ \E i \in SendIds : Wake(i)
    \/ Tick
    \/ SkipToTimer

Spec == Init /\ [][Next]_vars

\* the configurations of the batch specification
BatchConfigInputs ==
    {[apiToken |-> "test-token-123", timeout |-> 2,
      fetch |-> "fetchHonoringSignal",
      retry |-> [maxRetries |-> 1, initialDelay |-> 1]],
     [apiToken |-> "test-token-123", timeout |-> 2,
      fetch |-> "fetchHonoringSignal",
      retry |-> [maxRetries |-> 1, initialDelay |-> 1,
                 retryableStatusCodes |-> {0, 408, 503}]],
     [apiToken |-> "test-token-123", timeout |-> 2,
      fetch |-> "fetchIgnoringSignal",
      retry |-> [maxRetries |-> 0]]}

\* one client, one sendSmsBatch call; the clock advances from timer to timer
BatchNext ==
    \/ Construct(BatchConfigInputs)
    \/ SendSmsBatch
    \/ \E i \in SendIds : FetchResolve(i, BatchResponse(sends[i].payload))
    \/ \E i \in SendIds : TimeoutFire(i)
    \/ \E i \in SendIds : Wake(i)
    \/ SkipToTimer

BatchSpec == Init /\ [][BatchNext]_vars

\* client.sendSms(payload) on a client that has been used before: the new
\* send starts while the earlier ones are running or after they have ended
SendSmsAgain ==
    /\ client.state = "ready"
    /\ op.kind # "none"
    /\ Len(sends) < MaxSends
    /\ sends' = Append(sends, sendSms(SmsPayload("+256701521271", "Again"),
                                      now))
    /\ UNCHANGED <<client, op, batch, now>>

\* the configurations of the specification of a client used repeatedly
ClientConfigInputs ==
    {[apiToken |-> "test-token-123", timeout |-> 2,
      fetch |-> "fetchHonoringSignal",
      retry |-> [maxRetries |-> 1, initialDelay |-> 1]],
     [apiToken |-> "other-token-456", timeout |-> 2,
      fetch |-> "fetchIgnoringSignal",
      retry |-> [maxRetries |-> 0]]}

\* one client, one sendSmsBatch call and further sendSms calls on it
ClientNext ==
    \/ Construct(ClientConfigInputs)
    \/ SendSmsBatch
    \/ SendSmsAgain
    \/ \E i \in SendIds : FetchResolve(i, BatchResponse(sends[i].payload))
    \/ \E i \in SendIds : TimeoutFire(i)
    \/ \E i \in SendIds : Wake(i)
    \/ SkipToTimer

ClientSpec == Init /\ [][ClientNext]_vars

\* the custom headers a caller of the transport may supply
HeaderInputs ==
    {("Authorization" :> "override-token"),
     ("X-Request-Id" :> "42"),
     ("Content-Type" :> "text/plain") @@ ("User-Agent" :> "custom-agent")}

\* RequestOptions of direct calls of the transport, with and without custom
\* headers and body
RequestInputs ==
    {[method |-> "GET", path |-> "/messages/sms"],
     [method |-> "POST", path |-> "/messages/sms",
      body |-> SmsPayload("+256701521269", "Hello")]}
    \cup {[method |-> "GET", path |-> "/messages/sms", headers |-> h] :
             h \in HeaderInputs}
    \cup {[method |-> "POST", path |-> "/messages/sms", headers |-> h,
           body |-> SmsPayload("+256701521269", "Hello")] :
             h \in HeaderInputs}

\* httpClient.request(options) called directly
Request ==
    /\ client.state = "ready"
    /\ op.kind = "none"
    /\ \E options \in RequestInputs :
          sends' = <<request(NewSend(OrDefault(options, "body", NoOverrides),
                                     now),
                             options, now)>>
    /\ op' = [kind |-> "request", payloads |-> <<>>]
    /\ UNCHANGED <<client, batch, now>>

\* one client and one call: of the transport directly, or of sendSms
TransportNext ==
    \/ Construct(ClientConfigInputs)
    \/ Request
    \/ SendSms
    \/ \E i \in SendIds :
          FetchResolve(i, SuccessResponses \cup FailureResponses)
    \/ \E i \in SendIds : TimeoutFire(i)
    \/ \E i \in SendIds : Wake(i)
    \/ SkipToTimer

TransportSpec == Init /\ [][TransportNext]_vars

\* the event loop runs a callback that is ready: the executor settles a
\* call in flight (it returns a response, or it rejects because the deadline
\* timer aborted its signal), a due timer fires, or the clock goes on to the
\* next timer
EventLoopRuns ==
    \/ \E i \in SendIds : FetchResolve(i, BatchResponse(sends[i].payload))
    \/ \E i \in SendIds : TimeoutFire(i)
    \/ \E i \in SendIds : Wake(i)
    \/ SkipToTimer

\* one client and one call of it, sendSms or sendSmsBatch
LiveNext ==
    \/ Construct(ClientConfigInputs)
    \/ SendSms
    \/ SendSmsBatch
    \/ EventLoopRuns

\* the call runs on an event loop that does not stop while a callback is
\* ready
LiveSpec == Init /\ [][LiveNext]_vars /\ WF_vars(EventLoopRuns)

(***************************************************************************)
(* Vocabulary of the properties.                                           *)
(***************************************************************************)
\* the payload breaks a rule of the schema
Invalid(payload) ==
    \/ payload.to = ""
    \/ payload.message = ""
    \/ Len(payload.message) > 1600

\* the answer of the executor to attempt n of send s
IsResponse(s, n) == s.answers[n].type = "return"
IsTimeout(s, n) == s.answers[n] = Throw(AbortError)

\* attempt n was answered with a failure response whose status is retryable
IsRetryableFailure(s, n) ==
    /\ IsResponse(s, n)
    /\ ~s.answers[n].value.ok
    /\ s.answers[n].value.status \in client.retryConfig.retryableStatusCodes

\* attempt n was answered with a 200 JSON response
IsJsonSuccess(s, n) ==
    /\ IsResponse(s, n)
    /\ s.answers[n].value \in SuccessResponses

\* the attempts answered so far were all answered with retryable failures
OnlyRetryableFailures(s, k) == \A n \in 1..k : IsRetryableFailure(s, n)

TimeoutError == MsGineError("Request timeout", 408, "REQUEST_TIMEOUT")

(***************************************************************************)
(* C1: when the executor answers the first k attempts of a send            *)
(* (k <= maxRetries) with failure responses of retryable status, the send  *)
(* goes on to a further network call, and when the next answer is a 200    *)
(* JSON response the send succeeds with that body after exactly k+1        *)
(* network calls; a call is issued only once every earlier one is answered. *)
(***************************************************************************)
C1_RetriesThenSucceeds ==
    \A i \in SendIds :
        LET s == sends[i]
            n == Len(s.answers)
        IN  /\ s.calls \in {n, n + 1}
            /\ (n >= 1 /\ n <= client.retryConfig.maxRetries
                  /\ OnlyRetryableFailures(s, n))
                 => /\ s.pc \in {"sleeping", "fetching"}
                    /\ s.outcome = Pending
            /\ (n >= 1 /\ n - 1 <= client.retryConfig.maxRetries
                  /\ OnlyRetryableFailures(s, n - 1) /\ IsJsonSuccess(s, n))
                 => /\ s.pc = "done"
                    /\ s.outcome = Return(s.answers[n].value.json)
                    /\ s.calls = n

(***************************************************************************)
(* C2: a sendSms whose payload has an empty 'to', an empty 'message' or a  *)
(* 'message' of more than 1600 characters fails with a ValidationError and *)
(* issues no network call, whatever the configuration of the client.       *)
(***************************************************************************)
C2_InvalidPayloadNeverSent ==
    op.kind = "sendSms" =>
        \A i \in SendIds :
            Invalid(op.payloads[i]) =>
                /\ sends[i].pc = "done"
                /\ sends[i].outcome.type = "throw"
                /\ sends[i].outcome.value.cls = "MsGineValidationError"
                /\ sends[i].calls = 0
                /\ NetworkCalls = 0

C2_Witness ==
    /\ op.kind = "sendSms"
    /\ Len(op.payloads[1].message) = 1601
    /\ op.payloads[1].to # ""
    /\ sends[1].outcome.type = "throw"
    /\ client.retryConfig.maxRetries = 2

(***************************************************************************)
(* C3: when an attempt receives an HTTP response with a non-success status *)
(* s, the error the retry loop evaluates, and the error of a send that     *)
(* fails on it, has statusCode s; its code and message are those of the    *)
(* JSON error envelope, or the message is 'HTTP <status>: <statusText>'.   *)
(***************************************************************************)
C3_ErrorCarriesHttpStatus ==
    \A i \in SendIds :
        LET s == sends[i]
            n == Len(s.answers)
        IN  (n >= 1 /\ IsResponse(s, n) /\ ~s.answers[n].value.ok) =>
               LET r == s.answers[n].value
                   e == s.lastError
               IN  /\ e.cls = "MsGineError"
                   /\ e.statusCode = r.status
                   /\ (r \in FailureResponses /\ IsJson(r.contentType)
                          /\ "error" \in DOMAIN r.json)
                        => /\ e.code = r.json.error.code
                           /\ e.message = r.json.error.message
                   /\ ~IsJson(r.contentType)
                        => e.message = "HTTP " \o ToString(r.status) \o ": "
                                           \o r.statusText
                   /\ s.pc = "done" => s.outcome = Throw(e)

(***************************************************************************)
(* C4: when the first attempt of a send is answered with a failure status  *)
(* that is not in retryableStatusCodes, the send has failed after exactly  *)
(* one network call and without any backoff sleep.                         *)
(***************************************************************************)
C4_NonRetryableFailsAtOnce ==
    \A i \in SendIds :
        LET s == sends[i]
        IN  (Len(s.answers) >= 1 /\ IsResponse(s, 1)
               /\ ~s.answers[1].value.ok
               /\ s.answers[1].value.status
                     \notin client.retryConfig.retryableStatusCodes)
              => /\ s.pc = "done"
                 /\ s.outcome.type = "throw"
                 /\ s.calls = 1
                 /\ s.sleeps = 0

(***************************************************************************)
(* C5: after a failed attempt the retry loop goes on to a further attempt  *)
(* if and only if the error it caught is an ApiError whose statusCode is   *)
(* in retryableStatusCodes and the attempt counter is below maxRetries; so *)
(* for maxRetries >= 0 a send makes at most maxRetries+1 network calls,    *)
(* and exactly maxRetries+1 when every attempt failed retryably.           *)
(***************************************************************************)
\* the error is an ApiError with a retryable statusCode
RetryableError(error) ==
    /\ error.cls = "MsGineError"
    /\ error.statusCode \in client.retryConfig.retryableStatusCodes

\* the loop may retry on this error at this value of the attempt counter
MayRetry(error, attempt) ==
    RetryableError(error) /\ attempt < client.retryConfig.maxRetries

C5_RetryIffRetryableAndBelowMax ==
    \A i \in SendIds :
        LET s == sends[i]
            n == Len(s.errors)
        IN  /\ s.pc = "sleeping" => n >= 1 /\ MayRetry(s.errors[n], s.attempt)
            /\ (s.pc = "fetching" /\ s.calls >= 2)
                 => n >= 1 /\ MayRetry(s.errors[n], s.attempt - 1)
            /\ (s.pc = "done" /\ s.outcome.type = "throw" /\ s.calls >= 1)
                 => /\ n = s.calls
                    /\ ~MayRetry(s.errors[n], s.attempt)
            /\ s.calls = s.attempt + (IF s.calls = 0 THEN 0 ELSE 1)
            /\ client.retryConfig.maxRetries >= 0
                 => s.calls <= client.retryConfig.maxRetries + 1
            /\ (s.pc = "done" /\ client.retryConfig.maxRetries >= 0
                  /\ n >= 1 /\ n = s.calls
                  /\ \A k \in 1..n : RetryableError(s.errors[k]))
                 => s.calls = client.retryConfig.maxRetries + 1

C5_Witness ==
    /\ op.kind = "sendSms"
    /\ Len(sends) = 1
    /\ sends[1].pc = "done"
    /\ client.retryConfig.maxRetries = 2
    /\ sends[1].calls = 3
    /\ Len(sends[1].errors) = 3
    /\ \A k \in 1..3 : RetryableError(sends[1].errors[k])

(***************************************************************************)
(* C6: a send all of whose attempts were aborted by their deadline fails   *)
(* with ApiError{408, REQUEST_TIMEOUT, 'Request timeout'}.                 *)
(***************************************************************************)
\* the send made network calls and each of them was aborted by its deadline
EveryAttemptTimedOut(s) ==
    /\ s.calls >= 1
    /\ Len(s.answers) = s.calls
    /\ \A n \in 1..s.calls : IsTimeout(s, n)

C6_AllTimeoutsFailWith408 ==
    \A i \in SendIds :
        (sends[i].pc = "done" /\ EveryAttemptTimedOut(sends[i]))
          => /\ sends[i].outcome.type = "throw"
             /\ sends[i].outcome.value.cls = "MsGineError"
             /\ sends[i].outcome.value.statusCode = 408
             /\ sends[i].outcome.value.code = "REQUEST_TIMEOUT"
             /\ sends[i].outcome.value.message = "Request timeout"

C6_Witness ==
    /\ op.kind = "sendSms"
    /\ Len(sends) = 1
    /\ sends[1].pc = "done"
    /\ EveryAttemptTimedOut(sends[1])
    /\ sends[1].calls = 3

(***************************************************************************)
(* C7: a send whose responses never arrive within timeoutMs fails with     *)
(* ApiError{408, REQUEST_TIMEOUT} no earlier than timeoutMs and no later   *)
(* than timeoutMs after the call started, on the discrete clock and for    *)
(* every retry policy.  This is the statement of the specification.        *)
(***************************************************************************)
Elapsed(s) == s.ended - s.started

C7_FailsAtTimeoutMs ==
    \A i \in SendIds :
        (sends[i].pc = "done" /\ EveryAttemptTimedOut(sends[i]))
          => /\ sends[i].outcome = Throw(TimeoutError)
             /\ Elapsed(sends[i]) >= client.timeout
             /\ Elapsed(sends[i]) <= client.timeout

(***************************************************************************)
(* C7, amended: such a send fails with ApiError{408, REQUEST_TIMEOUT} no   *)
(* earlier than timeoutMs after it started, and exactly timeoutMs after it *)
(* started only when the policy does not retry a timeout (408 is not       *)
(* retryable, or maxRetries is 0); otherwise each of its maxRetries+1      *)
(* attempts runs to its own deadline and it fails after                    *)
(* (maxRetries+1) * timeoutMs plus the backoff delays in between.          *)
(***************************************************************************)
\* min(initialDelay * backoffMultiplier^n, maxDelay)
ExpectedDelay(n) ==
    LET rc == client.retryConfig
        raw == rc.initialDelay * Pow(rc.backoffMultiplier, n)
    IN  IF raw < rc.maxDelay THEN raw ELSE rc.maxDelay

\* the delays slept before attempts 1..n
RECURSIVE SumExpectedDelays(_)
SumExpectedDelays(n) ==
    IF n <= 0 THEN 0 ELSE ExpectedDelay(n - 1) + SumExpectedDelays(n - 1)

\* the policy retries an attempt that timed out
RetriesTimeouts ==
    /\ 408 \in client.retryConfig.retryableStatusCodes
    /\ client.retryConfig.maxRetries >= 1

C7_FailsAfterAllDeadlines ==
    \A i \in SendIds :
        LET s == sends[i]
        IN  (s.pc = "done" /\ EveryAttemptTimedOut(s))
              => /\ s.outcome = Throw(TimeoutError)
                 /\ Elapsed(s) >= client.timeout
                 /\ s.calls = IF RetriesTimeouts
                              THEN client.retryConfig.maxRetries + 1 ELSE 1
                 /\ Elapsed(s) = s.calls * client.timeout
                                   + SumExpectedDelays(s.calls - 1)
                 /\ ~RetriesTimeouts => Elapsed(s) = client.timeout

C7_Witness ==
    /\ op.kind = "sendSms"
    /\ Len(sends) = 1
    /\ sends[1].pc = "done"
    /\ EveryAttemptTimedOut(sends[1])
    /\ client.retryConfig = DEFAULT_RETRY_CONFIG
    /\ client.timeout = 2
    /\ Elapsed(sends[1]) = 7008

(***************************************************************************)
(* C8: a timed-out attempt is subject to the retry loop.  With 408         *)
(* retryable and attempt < maxRetries the loop sleeps the backoff delay    *)
(* and then issues a fresh network call; every call is guarded by a        *)
(* deadline of the full timeoutMs from its issue, and a deadline aborts    *)
(* only the attempt it was armed for, not before its own expiry.           *)
(***************************************************************************)
\* what one step may do to send i
C8_SendStep(i) ==
    LET isNew == i \notin DOMAIN sends
        after == sends'[i]
        before == IF isNew THEN NewSend(after.payload, now) ELSE sends[i]
    IN  \* a network call is issued with a deadline of the full timeout
        /\ after.calls > before.calls
             => /\ after.calls = before.calls + 1
                /\ after.pc = "fetching"
                /\ after.timer = now' + client'.timeout
                /\ ~after.aborted
        \* a timed-out attempt that may be retried is followed by the sleep
        /\ (Len(after.answers) = Len(before.answers) + 1
              /\ IsTimeout(after, Len(after.answers))
              /\ 408 \in client.retryConfig.retryableStatusCodes
              /\ before.attempt < client.retryConfig.maxRetries)
             => /\ after.pc = "sleeping"
                /\ after.wake = now' + ExpectedDelay(before.attempt)
        \* the sleep ends in a fresh call, not before the delay has elapsed
        /\ (before.pc = "sleeping" /\ after.pc # "sleeping")
             => /\ now >= before.wake
                /\ after.pc = "fetching"
                /\ after.attempt = before.attempt + 1
                /\ after.calls = before.calls + 1
        \* an attempt is aborted by its own deadline only, at its expiry
        /\ (after.aborted /\ ~before.aborted)
             => /\ before.pc = "fetching"
                /\ before.timer = before.armedAt + client.timeout
                /\ now >= before.timer
                /\ after.calls = before.calls
        \* the deadline of the attempt in flight is neither moved nor dropped
        /\ (before.pc = "fetching" /\ after.pc = "fetching"
              /\ after.calls = before.calls /\ ~after.aborted)
             => after.timer = before.timer

C8_TimeoutIsRetriedWithFreshDeadline ==
    [][\A i \in DOMAIN sends' : C8_SendStep(i)]_vars

C8_Witness ==
    /\ op.kind = "sendSms"
    /\ Len(sends) = 1
    /\ sends[1].pc = "fetching"
    /\ sends[1].attempt = 2
    /\ IsTimeout(sends[1], 1) /\ IsTimeout(sends[1], 2)
    /\ ~sends[1].aborted
    /\ sends[1].armedAt > 2 * client.timeout
    /\ sends[1].timer = sends[1].armedAt + client.timeout
    /\ now > sends[1].armedAt

(***************************************************************************)
(* C9: when a payload of a batch breaks a rule of the schema, at whatever  *)
(* position, sendSmsBatch fails with a ValidationError and no network call *)
(* is made for any item of the batch.                                      *)
(***************************************************************************)
C9_InvalidBatchSendsNothing ==
    (op.kind = "sendSmsBatch"
       /\ \E k \in DOMAIN op.payloads : Invalid(op.payloads[k]))
      => /\ batch.status = "rejected"
         /\ batch.error.cls = "MsGineValidationError"
         /\ NetworkCalls = 0
         /\ \A i \in SendIds : sends[i].calls = 0

C9_Witness ==
    /\ op.kind = "sendSmsBatch"
    /\ Len(op.payloads) = 2
    /\ ~Invalid(op.payloads[1])
    /\ Invalid(op.payloads[2])
    /\ batch.status = "rejected"

(***************************************************************************)
(* C10: when every item send of a batch succeeds, sendSmsBatch returns a   *)
(* sequence as long as its input whose element i is the result of the send *)
(* of payloads[i], in whatever order the sends completed.                  *)
(***************************************************************************)
C10_BatchResultsInInputOrder ==
    (op.kind = "sendSmsBatch" /\ batch.status = "fulfilled")
      => /\ Len(batch.results) = Len(op.payloads)
         /\ Len(sends) = Len(op.payloads)
         /\ \A i \in DOMAIN op.payloads :
               /\ sends[i].payload = op.payloads[i]
               /\ sends[i].outcome.type = "return"
               /\ batch.results[i] = sends[i].outcome.value
               /\ batch.results[i].to = <<op.payloads[i].to>>

C10_Witness ==
    /\ op.kind = "sendSmsBatch"
    /\ batch.status = "fulfilled"
    /\ Len(op.payloads) = 2
    /\ op.payloads[1] # op.payloads[2]
    /\ batch.order = <<2, 1>>
    /\ batch.results[1] # batch.results[2]

(***************************************************************************)
(* C11: in a batch whose payloads all validate, sendSmsBatch fails with    *)
(* the error of the item send that failed first in time and keeps that     *)
(* error; the failure of the batch leaves the other item sends untouched,  *)
(* so they go on with their own attempts and retries.                      *)
(***************************************************************************)
\* the item sends that have failed, in the order of their completion
FailedInOrder(b) ==
    SelectSeq(b.order, LAMBDA j : sends[j].outcome.type = "throw")

\* the batch reports the error of the first failure
C11_ReportsFirstFailure(b) ==
    (op.kind = "sendSmsBatch" /\ b.status = "rejected"
       /\ \A k \in DOMAIN op.payloads : ~Invalid(op.payloads[k]))
      => /\ FailedInOrder(b) # <<>>
         /\ b.error = sends[Head(FailedInOrder(b))].outcome.value

C11_Step ==
    /\ C11_ReportsFirstFailure(batch)'
    \* no aggregation: the error of a failed batch is never replaced
    /\ batch.status = "rejected"
         => batch'.status = "rejected" /\ batch'.error = batch.error
    \* no cancellation: the step that fails the batch changes the failing
    \* item send only
    /\ (batch.status = "pending" /\ batch'.status = "rejected")
         => \E i \in SendIds :
               /\ sends'[i].pc = "done"
               /\ sends'[i].outcome = Throw(batch'.error)
               /\ \A j \in SendIds \ {i} : sends'[j] = sends[j]
    \* a failed batch stops no item send: a sleeping sibling wakes into a
    \* fresh network call
    /\ \A j \in SendIds :
          (batch.status = "rejected" /\ sends[j].pc = "sleeping"
             /\ sends'[j] # sends[j])
            => /\ sends'[j].pc = "fetching"
               /\ sends'[j].calls = sends[j].calls + 1

C11_BatchFailsWithFirstError == [][C11_Step]_vars

C11_Witness ==
    /\ op.kind = "sendSmsBatch"
    /\ Len(sends) = 2
    /\ batch.status = "rejected"
    /\ batch.order = <<2>>
    /\ batch.error = sends[2].outcome.value
    /\ sends[1].pc = "fetching"
    /\ sends[1].attempt = 1
    /\ sends[1].armedAt > sends[2].ended

(***************************************************************************)
(* C12: constructing a client with an empty apiToken fails with 'API token *)
(* is required'; no client exists afterwards, so no operation runs and no  *)
(* network call is made; a client with a token is constructed.             *)
(***************************************************************************)
C12_EmptyTokenFailsConstruction ==
    client.state # "none" =>
        /\ client.apiToken = "" <=> client.state = "failed"
        /\ client.state = "failed"
             => /\ client.error.cls = "Error"
                /\ client.error.message = "API token is required"
                /\ op = NoOp
                /\ sends = <<>>
                /\ NetworkCalls = 0
        /\ op = NoOp => NetworkCalls = 0

C12_Witness ==
    /\ client.state = "failed"
    /\ client.apiToken = ""
    /\ client.error.message = "API token is required"

(***************************************************************************)
(* C13: the sleep that follows the failed attempt n (0-based) lasts        *)
(* exactly min(initialDelay * backoffMultiplier^n, maxDelay): it is armed  *)
(* for that delay, ends at its expiry and never exceeds maxDelay; with     *)
(* initialDelay 1000, multiplier 2 and maxDelay 10000 the delays are       *)
(* 1000, 2000, 4000, 8000, 10000, 10000.                                   *)
(***************************************************************************)
DocumentedDelays == <<1000, 2000, 4000, 8000, 10000, 10000>>

\* the delay parameters are those of the documented example
HasDocumentedDelays ==
    /\ client.retryConfig.initialDelay = 1000
    /\ client.retryConfig.backoffMultiplier = 2
    /\ client.retryConfig.maxDelay = 10000

C13_SendStep(i) ==
    LET before == sends[i]
        after == sends'[i]
    IN  \* the sleep is armed for the delay of the attempt that failed
        /\ (before.pc # "sleeping" /\ after.pc = "sleeping")
             => /\ after.attempt = before.attempt
                /\ after.lastDelay = ExpectedDelay(after.attempt)
                /\ after.lastDelay <= client.retryConfig.maxDelay
                /\ after.wake = now' + after.lastDelay
                /\ after.sleeps = before.sleeps + 1
                /\ (HasDocumentedDelays /\ after.attempt < 6)
                     => after.lastDelay = DocumentedDelays[after.attempt + 1]
        \* it ends at its expiry, neither earlier nor later
        /\ (before.pc = "sleeping" /\ after.pc # "sleeping")
             => now = before.wake /\ now' = now
        \* and is not re-armed meanwhile
        /\ (before.pc = "sleeping" /\ after.pc = "sleeping")
             => after.wake = before.wake /\ after.lastDelay = before.lastDelay

C13_BackoffDelayIsCappedExponential ==
    [][\A i \in DOMAIN sends \cap DOMAIN sends' : C13_SendStep(i)]_vars

C13_Witness ==
    /\ op.kind = "sendSms"
    /\ Len(sends) = 1
    /\ HasDocumentedDelays
    /\ sends[1].pc = "sleeping"
    /\ sends[1].attempt = 5
    /\ sends[1].lastDelay = 10000
    /\ sends[1].sleeps = 6
    /\ now < sends[1].wake

(***************************************************************************)
(* C14: for a valid payload sendSms makes exactly one transport request,   *)
(* a POST of the path /messages/sms with the validated {to, message} as    *)
(* body; every network call of it is a POST to a URL ending with that path *)
(* whose body is the JSON text of {to, message}, the same on every attempt.*)
(***************************************************************************)
\* the JSON text of {to, message} of a payload
ToMessageJson(payload) ==
    JSONstringify([to |-> payload.to, message |-> payload.message])

\* url ends with path
EndsWith(url, path) ==
    /\ Len(url) >= Len(path)
    /\ SubSeq(url, Len(url) - Len(path) + 1, Len(url)) = path

C14_OneRequestSameBodyEveryAttempt ==
    (op.kind = "sendSms" /\ ~Invalid(op.payloads[1])) =>
        /\ Len(sends) = 1
        /\ sends[1].requests = 1
        /\ sends[1].request =
              [method |-> "POST", path |-> "/messages/sms",
               body |-> [to |-> op.payloads[1].to,
                         message |-> op.payloads[1].message]]
        /\ Len(sends[1].wire) = sends[1].calls
        /\ \A k \in 1..Len(sends[1].wire) :
              /\ sends[1].wire[k].method = "POST"
              /\ EndsWith(sends[1].wire[k].url, "/messages/sms")
              /\ sends[1].wire[k].headers["Content-Type"] = "application/json"
              /\ sends[1].wire[k].body = ToMessageJson(op.payloads[1])

C14_Witness ==
    /\ op.kind = "sendSms"
    /\ "senderId" \in DOMAIN op.payloads[1]
    /\ Len(sends) = 1
    /\ sends[1].pc = "done"
    /\ sends[1].requests = 1
    /\ sends[1].calls = 3
    /\ Len(sends[1].wire) = 3
    /\ \A k \in 1..3 :
          sends[1].wire[k].body =
              "{\"to\":\"+256701521269\",\"message\":\"Hello\"}"

(***************************************************************************)
(* C15: the URL of every network call of sendSms is the configured baseUrl,*)
(* its path prefix kept, followed by /messages/sms.                        *)
(***************************************************************************)
C15_UrlIsBaseUrlThenPath ==
    \A i \in DOMAIN sends :
        \A k \in 1..Len(sends[i].wire) :
            sends[i].wire[k].url = client.baseUrl \o "/messages/sms"

(***************************************************************************)
(* C16: when the executor rejects with a cause other than an abort, the    *)
(* attempt produces ApiError{0, NETWORK_ERROR, 'Network error: <cause>'};  *)
(* when 0 is not a retryable status (as in the default policy) no further  *)
(* network call is made and that error reaches the caller.                 *)
(***************************************************************************)
\* attempt n of send s was answered with a rejection that is not an abort
IsNetworkFailure(s, n) ==
    /\ s.answers[n].type = "throw"
    /\ s.answers[n].value.name # "AbortError"

NetworkError(cause) ==
    MsGineError("Network error: " \o cause.message, 0, "NETWORK_ERROR")

C16_SendAfterNetworkFailure(s, n) ==
    /\ s.errors[n] = NetworkError(s.answers[n].value)
    /\ 0 \notin client.retryConfig.retryableStatusCodes
         => /\ s.pc = "done"
            /\ s.calls = n
            /\ s.outcome = Throw(NetworkError(s.answers[n].value))

C16_NetworkFailureIsApiErrorNotRetried ==
    \A i \in SendIds :
        \A n \in 1..Len(sends[i].answers) :
            IsNetworkFailure(sends[i], n)
                => C16_SendAfterNetworkFailure(sends[i], n)

(***************************************************************************)
(* C17: when an attempt receives a 2xx response whose content type is not  *)
(* JSON, the error of the attempt that the retry loop sees and that the    *)
(* caller gets is ApiError{statusCode = status of the response,            *)
(* code INVALID_RESPONSE_FORMAT}.                                          *)
(***************************************************************************)
\* attempt n of send s was answered with a success response that is not JSON
IsNonJsonSuccess(s, n) ==
    /\ IsResponse(s, n)
    /\ s.answers[n].value.ok
    /\ ~IsJson(s.answers[n].value.contentType)

IsInvalidResponseFormat(error, status) ==
    /\ error.cls = "MsGineError"
    /\ error.statusCode = status
    /\ error.code = "INVALID_RESPONSE_FORMAT"

C17_NonJsonSuccessIsInvalidResponseFormat ==
    \A i \in SendIds :
        \A n \in 1..Len(sends[i].answers) :
            IsNonJsonSuccess(sends[i], n) =>
                /\ IsInvalidResponseFormat(sends[i].errors[n],
                                           sends[i].answers[n].value.status)
                /\ (sends[i].pc = "done" /\ n = sends[i].calls)
                     => /\ sends[i].outcome.type = "throw"
                        /\ IsInvalidResponseFormat(
                               sends[i].outcome.value,
                               sends[i].answers[n].value.status)

(***************************************************************************)
(* C18: a send whose last attempt failed raises to its caller exactly the  *)
(* error that attempt produced (not the error of an earlier attempt, not a *)
(* new one), and never reports success.                                    *)
(***************************************************************************)
\* the send has ended and the last attempt it made ended with an error
LastAttemptFailed(s) ==
    /\ s.pc = "done"
    /\ s.calls >= 1
    /\ Len(s.errors) = s.calls

C18_LastErrorPropagatesUnchanged ==
    \A i \in SendIds :
        LastAttemptFailed(sends[i]) =>
            /\ sends[i].outcome.type = "throw"
            /\ sends[i].outcome.value = sends[i].errors[sends[i].calls]
            /\ sends[i].lastError = sends[i].errors[sends[i].calls]

C18_Witness ==
    /\ op.kind = "sendSms"
    /\ Len(sends) = 1
    /\ LastAttemptFailed(sends[1])
    /\ sends[1].calls = 2
    /\ sends[1].errors[1] = TimeoutError
    /\ sends[1].errors[2] =
          MsGineError("Network error: Network failure", 0, "NETWORK_ERROR")
    /\ sends[1].outcome = Throw(sends[1].errors[2])

(***************************************************************************)
(* C19: every outcome of sendSms is a DeliveryResult, a ValidationError or *)
(* an ApiError; for a valid payload a failing sendSms fails with an        *)
(* ApiError, whatever the executor does.                                   *)
(***************************************************************************)
C19_FailsOnlyWithDeclaredErrors ==
    (op.kind = "sendSms" /\ Len(sends) = 1 /\ sends[1].pc = "done") =>
        /\ sends[1].outcome.type = "throw" =>
              sends[1].outcome.value.cls
                  \in {"MsGineValidationError", "MsGineError"}
        /\ (sends[1].outcome.type = "throw" /\ ~Invalid(op.payloads[1])) =>
              sends[1].outcome.value.cls = "MsGineError"

(***************************************************************************)
(* C20: the retries of one send are sequential: at most one network call   *)
(* of the send is in flight at any moment, and a further attempt starts    *)
(* only when the previous one has settled and its backoff sleep has        *)
(* elapsed.                                                                *)
(***************************************************************************)
\* network calls of send s that the executor has not settled
InFlight(s) == s.calls - Len(s.answers)

C20_OneInFlight(s) ==
    /\ InFlight(s) \in {0, 1}
    /\ InFlight(s) = 1 <=> s.pc = "fetching"

C20_SendStep(i) ==
    LET before == sends[i]
        after == sends'[i]
    IN  /\ C20_OneInFlight(after)
        /\ after.calls \in {before.calls, before.calls + 1}
        /\ after.calls = before.calls + 1 =>
              /\ InFlight(before) = 0
              /\ Len(before.errors) = before.calls
              /\ before.pc = "sleeping"
              /\ before.sleeps = before.calls
              /\ before.wake # NoTimer
              /\ now >= before.wake
              /\ after.attempt = before.attempt + 1
              /\ after.calls = after.attempt + 1

C20_RetriesAreSequential ==
    [][\A i \in DOMAIN sends \cap DOMAIN sends' : C20_SendStep(i)]_vars

C20_Witness ==
    /\ op.kind = "sendSmsBatch"
    /\ Len(sends) = 2
    /\ sends[1].pc = "fetching"
    /\ sends[1].calls = 2
    /\ Len(sends[1].answers) = 1
    /\ sends[2].pc = "fetching"
    /\ sends[2].calls = 2
    /\ Len(sends[2].answers) = 1
    /\ now >= 3

(***************************************************************************)
(* C21: every sendSms invocation owns its attempt counter and its          *)
(* deadline: whether it runs beside other sends of the client or after     *)
(* them, it starts at attempt 0 with a deadline of its own, a step of one  *)
(* send leaves the others as they are, a send gives up on a retryable      *)
(* error only when it has itself made maxRetries+1 attempts, and the k     *)
(* items of a batch make at most k*(maxRetries+1) network calls.           *)
(***************************************************************************)
C21_OwnBudget(s) ==
    /\ s.calls <= client.retryConfig.maxRetries + 1
    /\ s.calls >= 1 => s.calls = s.attempt + 1
    /\ (s.pc = "done" /\ s.outcome.type = "throw"
            /\ RetryableError(s.outcome.value))
         => s.calls = client.retryConfig.maxRetries + 1
    /\ (s.pc = "fetching" /\ ~s.aborted)
         => s.timer = s.armedAt + client.timeout

C21_Step ==
    /\ \A i \in DOMAIN sends' : C21_OwnBudget(sends'[i])
    /\ \A i \in DOMAIN sends' \ DOMAIN sends :
          /\ sends'[i].attempt = 0
          /\ sends'[i].started = now
          /\ sends'[i].pc = "fetching"
               => /\ sends'[i].calls = 1
                  /\ sends'[i].timer = now + client.timeout
    /\ \A i \in DOMAIN sends \cap DOMAIN sends' :
          sends'[i] # sends[i] =>
              \A j \in (DOMAIN sends \cap DOMAIN sends') \ {i} :
                  sends'[j] = sends[j]
    /\ batch'.results # <<>> =>
          CallsOf(sends', Len(batch'.results))
              <= Len(batch'.results) * (client.retryConfig.maxRetries + 1)

C21_EachSendOwnsCounterAndDeadline == [][C21_Step]_vars

\* a send that starts after an earlier one has used up its attempts uses
\* all of its own
C21_Witness ==
    /\ op.kind = "sendSmsBatch"
    /\ Len(op.payloads) = 1
    /\ Len(sends) = 2
    /\ sends[1].pc = "done"
    /\ sends[1].outcome = Throw(TimeoutError)
    /\ sends[1].calls = client.retryConfig.maxRetries + 1
    /\ sends[1].calls = 2
    /\ sends[2].started >= sends[1].ended
    /\ sends[2].calls = 2
    /\ sends[2].pc = "fetching"
    /\ sends[2].timer = now + client.timeout

(***************************************************************************)
(* C22: every network call of sendSms and of sendSmsBatch, first attempts  *)
(* and retries alike, carries the header Authorization equal to the        *)
(* apiToken given to the constructor and Content-Type application/json.    *)
(***************************************************************************)
\* the tokens given to the constructor
TokensGiven == {config.apiToken : config \in ClientConfigInputs}

C22_EveryCallCarriesTokenAndContentType ==
    \A i \in SendIds :
        /\ Len(sends[i].wire) = sends[i].calls
        /\ \A k \in 1..Len(sends[i].wire) :
              /\ sends[i].wire[k].headers["Authorization"] = client.apiToken
              /\ sends[i].wire[k].headers["Authorization"] \in TokensGiven
              /\ sends[i].wire[k].headers["Content-Type"] = "application/json"

\* the retry of a batch item and the first call of a later sendSms
C22_Witness ==
    /\ op.kind = "sendSmsBatch"
    /\ Len(op.payloads) = 1
    /\ Len(sends) = 2
    /\ client.apiToken = "test-token-123"
    /\ Len(sends[1].wire) = 2
    /\ sends[1].wire[2].headers["Authorization"] = "test-token-123"
    /\ Len(sends[2].wire) = 1
    /\ sends[2].wire[1].headers["Authorization"] = "test-token-123"

(***************************************************************************)
(* C23: when an attempt receives a success response with JSON content type *)
(* (and a body that parses), sendSms returns the parsed body at once: the  *)
(* send ends in the step that receives the response, and no network call   *)
(* and no sleep follows.                                                   *)
(***************************************************************************)
\* the answer to attempt n of send s is a 2xx JSON response that parses
IsParsedJsonSuccess(s, n) ==
    /\ IsResponse(s, n)
    /\ s.answers[n].value.ok
    /\ IsJson(s.answers[n].value.contentType)
    /\ s.answers[n].value.json # ParseFailure

C23_SendStep(i) ==
    LET before == sends[i]
        after == sends'[i]
        n == Len(after.answers)
    IN  \* the step that receives the response ends the send with its body
        /\ (n = Len(before.answers) + 1 /\ IsParsedJsonSuccess(after, n))
             => /\ after.pc = "done"
                /\ after.outcome = Return(after.answers[n].value.json)
                /\ after.ended = now
                /\ after.calls = before.calls
                /\ after.sleeps = before.sleeps
                /\ after.wake = NoTimer
                /\ after.timer = NoTimer
        \* and nothing happens to the send afterwards
        /\ (Len(before.answers) >= 1
               /\ IsParsedJsonSuccess(before, Len(before.answers)))
             => after = before

C23_SuccessReturnsAtOnce ==
    [][\A i \in DOMAIN sends \cap DOMAIN sends' : C23_SendStep(i)]_vars

\* a success on the second attempt, seen after time has passed
C23_Witness ==
    /\ op.kind = "sendSms"
    /\ Len(sends) = 1
    /\ sends[1].calls = 2
    /\ sends[1].sleeps = 1
    /\ Len(sends[1].answers) = 2
    /\ IsParsedJsonSuccess(sends[1], 2)
    /\ sends[1].outcome = Return([id |-> "msg_1"])
    /\ now > sends[1].ended

(***************************************************************************)
(* C24: no step of a sendSms or sendSmsBatch call (success, failure,       *)
(* timeout, retry) changes the configuration of the client: apiToken,      *)
(* baseUrl, timeout and every field of the retry policy keep the values    *)
(* the constructor gave them.                                              *)
(***************************************************************************)
ConfigFields == {"apiToken", "baseUrl", "timeout", "fetchImpl", "retryConfig"}

C24_Step ==
    client.state = "ready" =>
        /\ client'.state = "ready"
        /\ \A f \in ConfigFields : client'[f] = client[f]
        /\ \A f \in DOMAIN DEFAULT_RETRY_CONFIG :
              client'.retryConfig[f] = client.retryConfig[f]
        /\ \E config \in ClientConfigInputs :
              client' = ConstructedClient(config)

C24_ConfigurationIsImmutable == [][C24_Step]_vars

\* a batch item has timed out, retried and failed; a later send succeeded
C24_Witness ==
    /\ client = ConstructedClient(
          [apiToken |-> "test-token-123", timeout |-> 2,
           fetch |-> "fetchHonoringSignal",
           retry |-> [maxRetries |-> 1, initialDelay |-> 1]])
    /\ op.kind = "sendSmsBatch"
    /\ batch.status = "rejected"
    /\ Len(sends) = 2
    /\ sends[1].pc = "done"
    /\ sends[1].calls = 2
    /\ sends[1].outcome = Throw(TimeoutError)
    /\ sends[2].pc = "done"
    /\ sends[2].outcome.type = "return"

(***************************************************************************)
(* C25: every attempt settles no later than timeoutMs after it was issued, *)
(* whatever the injected executor does: no attempt is still waiting after  *)
(* its deadline, and an attempt whose deadline has fired ends with         *)
(* ApiError 408 REQUEST_TIMEOUT.                                           *)
(***************************************************************************)
C25_AttemptEndsByDeadline ==
    \A i \in SendIds :
        /\ sends[i].pc = "fetching"
             => now <= sends[i].armedAt + client.timeout
        /\ (sends[i].pc # "fetching" /\ sends[i].aborted)
             => /\ Len(sends[i].errors) = sends[i].calls
                /\ sends[i].errors[sends[i].calls] = TimeoutError

(***************************************************************************)
(* C26: within a send that makes network calls there is exactly one        *)
(* backoff sleep between two consecutive attempts, none before the first   *)
(* attempt and none after the attempt that ends the send: the sleeps that  *)
(* have elapsed are always one fewer than the network calls made, and a    *)
(* sleep in progress is the one that follows the latest call.              *)
(***************************************************************************)
\* the sleeps of send s that have run to their end
ElapsedSleeps(s) == IF s.pc = "sleeping" THEN s.sleeps - 1 ELSE s.sleeps

C26_SleepsOfSend(s) ==
    s.calls >= 1 =>
        /\ ElapsedSleeps(s) = s.calls - 1
        /\ s.pc = "done" => s.sleeps = s.calls - 1
        /\ s.pc = "sleeping" => s.sleeps = s.calls

C26_SendStep(i) ==
    LET before == sends[i]
        after == sends'[i]
    IN  \* a sleep starts only from the attempt in flight
        /\ after.sleeps # before.sleeps
             => /\ after.sleeps = before.sleeps + 1
                /\ before.pc = "fetching"
                /\ after.pc = "sleeping"
                /\ after.calls = before.calls
        \* a further call starts only from a sleep
        /\ after.calls # before.calls
             => /\ after.calls = before.calls + 1
                /\ before.pc = "sleeping"
                /\ after.sleeps = before.sleeps

C26_Step ==
    /\ \A i \in DOMAIN sends' : C26_SleepsOfSend(sends'[i])
    /\ \A i \in DOMAIN sends' \ DOMAIN sends : sends'[i].sleeps = 0
    /\ \A i \in DOMAIN sends \cap DOMAIN sends' : C26_SendStep(i)

C26_OneSleepBetweenAttempts == [][C26_Step]_vars

\* three calls, two sleeps, ended by the attempt that exhausts maxRetries
C26_Witness ==
    /\ op.kind = "sendSms"
    /\ Len(sends) = 1
    /\ client.retryConfig.maxRetries = 2
    /\ sends[1].pc = "done"
    /\ sends[1].outcome.type = "throw"
    /\ sends[1].calls = 3
    /\ sends[1].sleeps = 2

(***************************************************************************)
(* C27: the deadline timer of an attempt is cleared by the time the        *)
(* attempt settles (response received or executor rejected): an armed      *)
(* deadline timer always belongs to an attempt that still waits for its    *)
(* answer, and a timer never fires for an attempt that has settled.        *)
(***************************************************************************)
\* send s has an attempt that the executor has not answered
AwaitsAnswer(s) ==
    /\ s.pc = "fetching"
    /\ Len(s.answers) = s.calls - 1

C27_TimerOfSend(s) ==
    s.timer # NoTimer =>
        /\ AwaitsAnswer(s)
        /\ ~s.aborted
        /\ s.timer = s.armedAt + client.timeout

C27_SendStep(i) ==
    LET before == sends[i]
        after == sends'[i]
    IN  \* the step in which the attempt settles leaves no timer of it armed
        /\ Len(after.answers) # Len(before.answers)
             => after.timer = NoTimer
        \* the timer fires only for an attempt that awaits its answer
        /\ (after.aborted /\ ~before.aborted)
             => /\ AwaitsAnswer(before)
                /\ before.timer # NoTimer
                /\ now >= before.timer
                /\ after.timer = NoTimer

C27_Step ==
    /\ \A i \in DOMAIN sends' : C27_TimerOfSend(sends'[i])
    /\ \A i \in DOMAIN sends \cap DOMAIN sends' : C27_SendStep(i)

C27_DeadlineTimerClearedOnSettle == [][C27_Step]_vars

\* an attempt was answered before its deadline; the deadline has passed
\* since, and the send sleeps with no deadline timer armed
C27_Witness ==
    /\ op.kind = "sendSms"
    /\ Len(sends) = 1
    /\ sends[1].pc = "sleeping"
    /\ Len(sends[1].answers) = 1
    /\ sends[1].answers[1].type = "throw"
    /\ ~sends[1].aborted
    /\ sends[1].timer = NoTimer
    /\ now >= sends[1].armedAt + client.timeout

(***************************************************************************)
(* C28: when several payloads of a batch are invalid, sendSmsBatch fails   *)
(* with the ValidationError of the invalid payload that comes first in     *)
(* input order, carrying the issues of that payload only.                  *)
(***************************************************************************)
Issue(field, message) == [path |-> <<field>>, message |-> message]

\* one issue for each rule of the schema that the payload violates
IssuesOf(payload) ==
    (IF payload.to = ""
     THEN <<Issue("to", "Phone number is required")>> ELSE <<>>)
    \o (IF payload.message = ""
        THEN <<Issue("message", "Message is required")>> ELSE <<>>)
    \o (IF Len(payload.message) > 1600
        THEN <<Issue("message", "Message too long")>> ELSE <<>>)

\* positions of the invalid payloads of the operation
InvalidPositions == {i \in DOMAIN op.payloads : Invalid(op.payloads[i])}

FirstInvalid ==
    CHOOSE i \in InvalidPositions : \A j \in InvalidPositions : i <= j

C28_BatchFailsWithFirstInvalidPayload ==
    (op.kind = "sendSmsBatch" /\ InvalidPositions # {}) =>
        /\ batch.status = "rejected"
        /\ batch.error =
              MsGineValidationError("Invalid SMS payload in batch",
                                    IssuesOf(op.payloads[FirstInvalid]))
        /\ sends = <<>>

\* two invalid payloads with different issues
C28_Witness ==
    /\ op.kind = "sendSmsBatch"
    /\ op.payloads = <<SmsPayload("", "Invalid"), SmsPayload("", "")>>
    /\ batch.status = "rejected"
    /\ batch.error.issues = <<Issue("to", "Phone number is required")>>

(***************************************************************************)
(* C29: a ValidationError lists one issue for each violated rule and does  *)
(* not stop at the first bad field: an empty 'to' together with an empty   *)
(* or over-long 'message' gives two issues, path ['to'] then path          *)
(* ['message']; validation leaves the payload as it was given.             *)
(***************************************************************************)
C29_OneIssuePerViolatedRule ==
    (op.kind = "sendSms" /\ Invalid(op.payloads[1])) =>
        /\ Len(sends) = 1
        /\ sends[1].outcome =
              Throw(MsGineValidationError("Invalid SMS payload",
                                          IssuesOf(op.payloads[1])))
        /\ (op.payloads[1].to = "" /\ op.payloads[1].message = "")
             => sends[1].outcome.value.issues =
                   <<Issue("to", "Phone number is required"),
                     Issue("message", "Message is required")>>
        /\ (op.payloads[1].to = "" /\ Len(op.payloads[1].message) > 1600)
             => sends[1].outcome.value.issues =
                   <<Issue("to", "Phone number is required"),
                     Issue("message", "Message too long")>>
        /\ sends[1].payload = op.payloads[1]
        /\ sends[1].calls = 0

C29_Witness ==
    /\ op.kind = "sendSms"
    /\ op.payloads[1].to = ""
    /\ Len(op.payloads[1].message) = 1601
    /\ Len(sends) = 1
    /\ sends[1].pc = "done"
    /\ Len(sends[1].outcome.value.issues) = 2
    /\ sends[1].outcome.value.issues[2] =
          Issue("message", "Message too long")

(***************************************************************************)
(* C30: when every call of the executor eventually returns or rejects and  *)
(* every sleep timer eventually fires, every sendSms call and every        *)
(* sendSmsBatch call eventually settles with a result or an error, and no  *)
(* send makes more than maxRetries+1 attempts.                             *)
(***************************************************************************)
SendSettled(i) == i \in SendIds /\ sends[i].pc = "done"

\* every call made so far has settled
AllSettled ==
    /\ \A i \in SendIds : SendSettled(i)
    /\ batch.status # "pending"

AttemptsWithinBudget ==
    \A i \in SendIds : sends[i].calls <= client.retryConfig.maxRetries + 1

C30_EveryCallSettles ==
    /\ (op.kind # "none") ~> AllSettled
    /\ []AttemptsWithinBudget

\* a batch that has settled after one of its items used all its attempts
C30_Witness ==
    /\ op.kind = "sendSmsBatch"
    /\ Len(sends) = 2
    /\ AllSettled
    /\ batch.status = "rejected"
    /\ sends[1].calls = client.retryConfig.maxRetries + 1
    /\ sends[1].calls = 2
    /\ sends[1].outcome = Throw(TimeoutError)
    /\ sends[2].outcome.type = "return"

(***************************************************************************)
(* C31: for every retry policy the constructor accepts, maxRetries 0 and a *)
(* negative maxRetries included, sendSms on a valid payload issues at      *)
(* least one network call, and when it fails it fails with a defined       *)
(* ApiError, never with an undefined error value.                          *)
(***************************************************************************)
C31_AtLeastOneCallAndDefinedError ==
    (op.kind = "sendSms" /\ Len(sends) = 1 /\ ~Invalid(op.payloads[1])) =>
        /\ sends[1].calls >= 1
        /\ (sends[1].pc = "done" /\ sends[1].outcome.type = "throw")
             => /\ sends[1].outcome.value # UndefinedValue
                /\ sends[1].outcome.value.cls = "MsGineError"

(***************************************************************************)
(* C32: in a batch whose payloads all validate, the first network calls of *)
(* the items are issued in input order (item i before item i+1), and all   *)
(* of them are issued before the response of any item is processed.        *)
(***************************************************************************)
C32_ItemsIssued(ss) ==
    /\ Len(ss) = Len(op'.payloads)
    /\ \A i \in DOMAIN ss :
          /\ ss[i].calls >= 1
          /\ ss[i].firstSeq = i
          /\ ss[i].wire[1].body = ToMessageJson(op'.payloads[i])
    /\ \A i \in DOMAIN ss : \A j \in DOMAIN ss :
          i < j => ss[i].firstSeq < ss[j].firstSeq

C32_Step ==
    (op'.kind = "sendSmsBatch" /\ InvalidPositions' = {}) =>
        /\ C32_ItemsIssued(sends')
        \* the step that makes the batch call issues every first call and
        \* processes no response
        /\ op.kind = "none" =>
              \A i \in DOMAIN sends' :
                  /\ sends'[i].pc = "fetching"
                  /\ sends'[i].calls = 1
                  /\ sends'[i].answers = <<>>
                  /\ sends'[i].armedAt = now
        \* a response is processed only when every item has made its call
        /\ \A i \in DOMAIN sends \cap DOMAIN sends' :
              Len(sends'[i].answers) > Len(sends[i].answers)
                  => \A j \in DOMAIN op.payloads :
                        j \in DOMAIN sends /\ sends[j].calls >= 1

C32_FirstCallsInInputOrder == [][C32_Step]_vars

\* the response of the second item is processed while the first item still
\* waits for the answer to its first call
C32_Witness ==
    /\ op.kind = "sendSmsBatch"
    /\ Len(sends) = 2
    /\ sends[1].firstSeq = 1
    /\ sends[2].firstSeq = 2
    /\ sends[1].pc = "fetching"
    /\ sends[1].calls = 1
    /\ sends[1].answers = <<>>
    /\ sends[2].pc = "done"
    /\ Len(sends[2].answers) = 1

(***************************************************************************)
(* C33: retry fields omitted at construction take their defaults           *)
(* (maxRetries 3, initialDelay 1000, maxDelay 10000, backoffMultiplier 2,  *)
(* retryableStatusCodes {408,429,500,502,503,504}) and a supplied field    *)
(* replaces its default entirely; with a supplied set of status codes that *)
(* lacks 408 a timed-out attempt is not retried.                           *)
(***************************************************************************)
DocumentedRetryDefaults ==
    [maxRetries |-> 3,
     initialDelay |-> 1000,
     maxDelay |-> 10000,
     backoffMultiplier |-> 2,
     retryableStatusCodes |-> {408, 429, 500, 502, 503, 504}]

\* the retry fields the constructor was given
RetryGiven ==
    IF "retry" \in DOMAIN client.config THEN client.config.retry
    ELSE [f \in {} |-> 0]

C33_RetryDefaultsAndOverrides ==
    client.state = "ready" =>
        /\ DOMAIN client.retryConfig = DOMAIN DocumentedRetryDefaults
        /\ \A f \in DOMAIN DocumentedRetryDefaults :
              client.retryConfig[f] =
                  IF f \in DOMAIN RetryGiven THEN RetryGiven[f]
                  ELSE DocumentedRetryDefaults[f]
        /\ \A i \in SendIds :
              \A n \in 1..Len(sends[i].errors) :
                  (sends[i].errors[n] = TimeoutError
                      /\ "retryableStatusCodes" \in DOMAIN RetryGiven
                      /\ 408 \notin RetryGiven.retryableStatusCodes)
                    => /\ sends[i].pc = "done"
                       /\ sends[i].calls = n
                       /\ sends[i].sleeps = n - 1
                       /\ sends[i].outcome = Throw(TimeoutError)

\* the policy was given status codes without 408 and a retry was left, yet
\* the send ended at its first, timed-out attempt
C33_Witness ==
    /\ client.state = "ready"
    /\ RetryGiven = [maxRetries |-> 1, initialDelay |-> 2, maxDelay |-> 3,
                     retryableStatusCodes |-> {503}]
    /\ client.retryConfig.retryableStatusCodes = {503}
    /\ client.retryConfig.backoffMultiplier = 2
    /\ op.kind = "sendSms"
    /\ Len(sends) = 1
    /\ sends[1].pc = "done"
    /\ sends[1].calls = 1
    /\ sends[1].errors = <<TimeoutError>>

(***************************************************************************)
(* C34: sendSmsBatch on an empty sequence of payloads succeeds with an     *)
(* empty sequence of results and makes no network call.                    *)
(***************************************************************************)
C34_EmptyBatchSucceedsWithNothing ==
    (op.kind = "sendSmsBatch" /\ op.payloads = <<>>) =>
        /\ batch.status = "fulfilled"
        /\ batch.results = <<>>
        /\ sends = <<>>
        /\ NetworkCalls = 0

C34_Witness ==
    /\ client.state = "ready"
    /\ op = [kind |-> "sendSmsBatch", payloads |-> <<>>]
    /\ batch.status = "fulfilled"
    /\ Len(batch.results) = 0

(***************************************************************************)
(* C35: the transport merges the headers supplied with a request after the *)
(* defaults: a supplied header overrides the default of the same name,     *)
(* Authorization included, and the other defaults remain; a request        *)
(* without custom headers, as every request of sendSms, carries exactly    *)
(* Authorization, Content-Type and User-Agent.                             *)
(***************************************************************************)
DefaultHeaderNames == {"Authorization", "Content-Type", "User-Agent"}

DefaultHeader(name) ==
    IF name = "Authorization" THEN client.apiToken
    ELSE IF name = "Content-Type" THEN "application/json"
    ELSE "@msgine/sdk/1.0.0"

\* the headers supplied with the request of send s
CustomHeaders(s) ==
    IF "headers" \in DOMAIN s.request THEN s.request.headers
    ELSE [f \in {} |-> 0]

C35_HeadersOfCall(s, k) ==
    LET custom == CustomHeaders(s)
        headers == s.wire[k].headers
    IN  /\ DOMAIN headers = DefaultHeaderNames \cup DOMAIN custom
        /\ \A name \in DOMAIN custom : headers[name] = custom[name]
        /\ \A name \in DefaultHeaderNames \ DOMAIN custom :
              headers[name] = DefaultHeader(name)
        /\ DOMAIN custom = {} => DOMAIN headers = DefaultHeaderNames

C35_CustomHeadersOverrideDefaults ==
    \A i \in SendIds :
        /\ op.kind = "sendSms" => DOMAIN CustomHeaders(sends[i]) = {}
        /\ Len(sends[i].wire) = sends[i].calls
        /\ \A k \in 1..Len(sends[i].wire) : C35_HeadersOfCall(sends[i], k)

\* a retried request whose Authorization was supplied by the caller
C35_Witness ==
    /\ op.kind = "request"
    /\ Len(sends) = 1
    /\ CustomHeaders(sends[1]) = ("Authorization" :> "override-token")
    /\ client.apiToken = "test-token-123"
    /\ Len(sends[1].wire) = 2
    /\ sends[1].wire[2].headers["Authorization"] = "override-token"
    /\ sends[1].wire[2].headers["Content-Type"] = "application/json"
    /\ sends[1].wire[2].headers["User-Agent"] = "@msgine/sdk/1.0.0"

====
